---- MODULE Spec2Model ----
(* Model of petabvis/window_functionality.py: the file-dialog handlers, the  *)
(* registry tree and its click handlers, acting on the main window's state.  *)
(* The QSettings store ("last_dir") only seeds the start directory of the    *)
(* file dialogs and is kept outside the window state.                        *)
EXTENDS Naturals, Integers, Sequences, FiniteSets, TLC

(* ------------------------------------------------------------------------ *)
(* Bounds                                                                    *)
(* ------------------------------------------------------------------------ *)

\* Number of times table_tree_view may connect handlers to the tree view.
MaxConnections == 3

(* ------------------------------------------------------------------------ *)
(* Values                                                                    *)
(* ------------------------------------------------------------------------ *)

\* Python's None.
None == [none |-> TRUE]

\* Result of a yaml file that does not parse.
YamlError == [error |-> TRUE]

MEASUREMENT_FILES == "measurement_files"
VISUALIZATION_FILES == "visualization_files"
CONDITION_FILES == "condition_files"
OBSERVABLE_FILES == "observable_files"

\* Categories whose files table_tree_view loads into a dataframe.
LoadedKeys == {MEASUREMENT_FILES, VISUALIZATION_FILES, CONDITION_FILES, OBSERVABLE_FILES}

NoVisualizationMsg == "The YAML file contains no visualization file (default plotted)"
OpenYamlFirstMsg == "Please open a YAML file first."

(* ------------------------------------------------------------------------ *)
(* The files on disk (the inputs the dialogs can choose from)                *)
(* ------------------------------------------------------------------------ *)

\* Readable PEtab tables, as <<directory, filename>>.
DataFiles ==
  { <<"d1", "m1">>, <<"d1", "m2">>, <<"d1", "c1">>, <<"d1", "v1">>,
    <<"d2", "m1">>, <<"d2", "c1">> }

\* Tables that carry a replicateId column.
WithReplicateId == { <<"d1", "m1">>, <<"d2", "s2">> }

\* Manifest files the yaml dialog can return.
YamlPaths ==
  { <<"d1", "pa">>, <<"d1", "pb">>, <<"d2", "pd">>, <<"d1", "pe">>,
    <<"d1", "pf">>, <<"d1", "pg">>, <<"d2", "bad">> }

\* Files the simulation dialog can return.
SimPaths == { <<"d1", "s1">>, <<"d2", "s2">>, <<"d1", "sbad">>, <<"d1", "snocol">> }

\* Simulation files that parse as a table.
SimReadable == { <<"d1", "s1">>, <<"d2", "s2">>, <<"d1", "snocol">> }

\* Simulation files that carry the mandatory columns.
SimMandatory == { <<"d1", "s1">>, <<"d2", "s2">> }

\* A dataframe read from folder_path + "/" + filename.
get_df(dir, filename) ==
  [dir |-> dir, name |-> filename, replicateId |-> <<dir, filename>> \in WithReplicateId]

Readable(dir, filename) == <<dir, filename>> \in DataFiles

\* petab.load_yaml(file_name)["problems"][0]
load_yaml(file_name) ==
  CASE file_name = <<"d1", "pa">> ->
         [measurement_files |-> <<"m1", "m2">>, condition_files |-> <<"c1">>,
          visualization_files |-> <<"v1">>]
    [] file_name = <<"d1", "pb">> ->
         [measurement_files |-> <<"m1">>, condition_files |-> <<"c1">>]
    [] file_name = <<"d2", "pd">> ->
         [measurement_files |-> <<"m1">>, condition_files |-> <<"cx">>]
    [] file_name = <<"d1", "pe">> ->
         [measurement_files |-> <<"mx">>, condition_files |-> <<"c1">>]
    [] file_name = <<"d1", "pf">> ->
         [measurement_files |-> <<"m2">>, condition_files |-> <<"c1">>,
          visualization_files |-> <<"vx">>]
    [] file_name = <<"d1", "pg">> ->
         [measurement_files |-> <<"m2", "mx">>, condition_files |-> <<"c1">>]
    [] OTHER -> YamlError

(* ------------------------------------------------------------------------ *)
(* State                                                                     *)
(* ------------------------------------------------------------------------ *)

VARIABLES
  yaml_dict,         \* window.yaml_dict
  exp_data,          \* window.exp_data (measurement table)
  condition_df,      \* window.condition_df
  visualization_df,  \* window.visualization_df
  simulation_df,     \* window.simulation_df
  warn_msg,          \* messages shown in window.warn_msg
  model,             \* the model set on window.tree_view
  connections,       \* number of handler pairs connected to window.tree_view
  table_window,      \* dataframe of window.table_window
  plot2_shown,       \* window.plot2_widget is in window.wid
  plots,             \* add_plots calls of the last handler run
  last               \* the last handler run and how it ended

vars == <<yaml_dict, exp_data, condition_df, visualization_df, simulation_df,
          warn_msg, model, connections, table_window, plot2_shown, plots, last>>

\* The window as the handlers see it, with an empty record of add_plots calls.
Window ==
  [yaml_dict |-> yaml_dict, exp_data |-> exp_data, condition_df |-> condition_df,
   visualization_df |-> visualization_df, simulation_df |-> simulation_df,
   warn_msg |-> warn_msg, model |-> model, connections |-> connections,
   table_window |-> table_window, plot2_shown |-> plot2_shown,
   plots |-> <<>>, step |-> "done"]

\* The four ActiveSelection slots of a window record.
Slots(w) == <<w.exp_data, w.condition_df, w.visualization_df, w.simulation_df>>

\* An exception leaves the handler at the named step.
Raise(w, step) == [w EXCEPT !.step = step]

(* ------------------------------------------------------------------------ *)
(* Main-window methods called by the handlers                                *)
(* ------------------------------------------------------------------------ *)

\* window.add_plots(): the refresh signal, recorded with the tables it sees.
add_plots(w) ==
  [w EXCEPT !.plots = Append(@, [exp_data |-> w.exp_data,
                                 condition_df |-> w.condition_df])]

\* window.add_warning(message): the message is surfaced in the warning area.
add_warning(w, message) == [w EXCEPT !.warn_msg = @ \cup {message}]

(* ------------------------------------------------------------------------ *)
(* The registry tree                                                         *)
(* ------------------------------------------------------------------------ *)

\* Nodes of the tree as <<name of the parent branch, own name>>; a branch has
\* the invisible root as parent, written "".
BranchNodes(d) == { <<"", key>> : key \in DOMAIN d }

LeafNodes(d) ==
  UNION { { <<key, d[key][i]>> : i \in 1..Len(d[key]) } : key \in DOMAIN d }

SimulationNodes == { <<"", "simulation_files">>, <<"simulation_files", "simulation_file">> }

\* Every file that table_tree_view reads is readable in folder_path.
TreeLoadable(d, folder_path) ==
  \A key \in DOMAIN d \cap LoadedKeys :
    \A i \in 1..Len(d[key]) : Readable(folder_path, d[key][i])

\* The data (role UserRole + 1) table_tree_view stores in each item.
TreeItems(d, folder_path, sim) ==
  LET nodes == BranchNodes(d) \cup LeafNodes(d)
                 \cup (IF sim # None THEN SimulationNodes ELSE {})
  IN [n \in nodes |->
        IF n = <<"simulation_files", "simulation_file">> /\ sim # None THEN sim
        ELSE IF n[1] \in LoadedKeys THEN get_df(folder_path, n[2])
        ELSE None]

\* table_tree_view(window, folder_path): build the model, set it on the tree
\* view and connect one more pair of click handlers.
table_tree_view(w, folder_path) ==
  IF ~ TreeLoadable(w.yaml_dict, folder_path) THEN Raise(w, "tree")
  ELSE [w EXCEPT !.model = [id |-> w.connections + 1,
                            items |-> TreeItems(w.yaml_dict, folder_path,
                                                w.simulation_df)],
                 !.connections = @ + 1]

\* A model index: the model it belongs to and the node it points at.
Index(m, n) == [valid |-> TRUE, model |-> m.id, node |-> n]

InvalidIndex == [valid |-> FALSE, model |-> 0, node |-> <<"", "">>]

\* index.parent()
Parent(index) ==
  IF ~ index.valid \/ index.node[1] = "" THEN InvalidIndex
  ELSE [valid |-> TRUE, model |-> index.model, node |-> <<"", index.node[1]>>]

\* model.data(index, DisplayRole); "" stands for None. The root item and an
\* index of another model carry no data.
DisplayData(m, index) ==
  IF ~ index.valid \/ index.model # m.id THEN "" ELSE index.node[2]

\* model.data(index, role=UserRole + 1)
UserData(m, index) ==
  IF ~ index.valid \/ index.model # m.id THEN None ELSE m.items[index.node]

(* ------------------------------------------------------------------------ *)
(* Click handlers                                                            *)
(* ------------------------------------------------------------------------ *)

\* exchange_dataframe_on_click(index, model, window)
exchange_dataframe_on_click(index, m, w) ==
  LET df == UserData(m, index)
      parent_name == DisplayData(m, Parent(index))
      w1 == IF parent_name = MEASUREMENT_FILES THEN [w EXCEPT !.exp_data = df] ELSE w
      w2 == IF parent_name = VISUALIZATION_FILES
            THEN [w1 EXCEPT !.visualization_df = df] ELSE w1
      w3 == IF parent_name = CONDITION_FILES
            THEN [w2 EXCEPT !.condition_df = df] ELSE w2
  IN add_plots(w3)

\* pop_up_table_view(window, df)
pop_up_table_view(w, df) == [w EXCEPT !.table_window = df]

\* Variant of display_table_on_doubleclick without the None test.
display_table_always(index, m, w) == pop_up_table_view(w, UserData(m, index))

\* display_table_on_doubleclick(index, model, window)
display_table_on_doubleclick(index, m, w) ==
  LET df == UserData(m, index)
  IN IF df # None THEN pop_up_table_view(w, df) ELSE w

\* The model captured by the i-th connected lambda: the current one for the
\* last connection, an earlier (replaced) model otherwise.
CapturedModel(i, w) ==
  IF i = w.connections THEN w.model ELSE [id |-> i, items |-> <<>>]

\* tree_view.clicked: every connected lambda runs, in connection order.
RECURSIVE EmitClicked(_, _, _)
EmitClicked(i, index, w) ==
  IF i > w.connections THEN w
  ELSE EmitClicked(i + 1, index,
                   exchange_dataframe_on_click(index, CapturedModel(i, w), w))

\* tree_view.doubleClicked: every connected lambda runs, in connection order.
RECURSIVE EmitDoubleClicked(_, _, _)
EmitDoubleClicked(i, index, w) ==
  IF i > w.connections THEN w
  ELSE EmitDoubleClicked(i + 1, index,
                         display_table_on_doubleclick(index, CapturedModel(i, w), w))

(* ------------------------------------------------------------------------ *)
(* File-dialog handlers                                                      *)
(* ------------------------------------------------------------------------ *)

\* os.path.dirname(file_name)
dirname(file_name) == file_name[1]

\* yaml_dict[key][0] exists and the file loads from folder_path.
FirstLoads(d, key, folder_path) ==
  /\ key \in DOMAIN d
  /\ Len(d[key]) >= 1
  /\ Readable(folder_path, d[key][1])

\* Variant of clear_simulation that forgets to reset the simulation table.
keep_simulation(w) == w

\* window.simulation_df = None
clear_simulation(w) == [w EXCEPT !.simulation_df = None]

\* The visualization branch of show_yaml_dialog.
select_visualization(w, d, folder_path) ==
  IF VISUALIZATION_FILES \in DOMAIN d
  THEN IF ~ FirstLoads(d, VISUALIZATION_FILES, folder_path)
       THEN Raise(w, "visualization")
       ELSE [w EXCEPT !.visualization_df =
                        get_df(folder_path, d[VISUALIZATION_FILES][1])]
  ELSE add_warning([w EXCEPT !.visualization_df = None], NoVisualizationMsg)

\* show_yaml_dialog with a file selected in the dialog.
show_yaml_dialog(file_name, w) ==
  LET folder == dirname(file_name)
      w1 == [w EXCEPT !.warn_msg = {}]
      d  == load_yaml(file_name)
  IN IF d = YamlError THEN Raise(w1, "manifest")
     ELSE
       LET w2 == [w1 EXCEPT !.yaml_dict = d]
       IN IF ~ FirstLoads(d, MEASUREMENT_FILES, folder) THEN Raise(w2, "measurement")
          ELSE
            LET w3 == [w2 EXCEPT !.exp_data = get_df(folder, d[MEASUREMENT_FILES][1])]
            IN IF ~ FirstLoads(d, CONDITION_FILES, folder) THEN Raise(w3, "condition")
               ELSE
                 LET w4 == [w3 EXCEPT !.condition_df =
                                        get_df(folder, d[CONDITION_FILES][1])]
                     w5 == select_visualization(clear_simulation(w4), d, folder)
                 IN IF w5.step # "done" THEN w5
                    ELSE table_tree_view(add_plots(w5), folder)

\* Variant of reject_simulation that goes on to refresh the plots.
reject_simulation_replots(w) == add_plots(add_warning(w, OpenYamlFirstMsg))

\* The branch of show_simulation_dialog taken when window.exp_data is None.
reject_simulation(w) == add_warning(w, OpenYamlFirstMsg)

\* check_ex_exp_columns(sim_data, ..., sim=True): non-mandatory default
\* columns, replicateId among them, are added to the table.
check_ex_exp_columns(sim_data) == [sim_data EXCEPT !.replicateId = TRUE]

\* Drop replicateId from the simulation table when exp_data has none.
drop_replicate_id(sim_data, exp) ==
  IF ~ exp.replicateId /\ sim_data.replicateId
  THEN [sim_data EXCEPT !.replicateId = FALSE]
  ELSE sim_data

\* window.wid.insertWidget(1, window.plot2_widget)
insert_plot2(w) == [w EXCEPT !.plot2_shown = TRUE]

\* show_simulation_dialog with a file selected in the dialog; check_raises is
\* whether check_ex_exp_columns raises for this table and condition_df.
show_simulation_dialog(file_name, check_raises, w) ==
  IF w.exp_data = None
  THEN [reject_simulation(w) EXCEPT !.step = "precondition"]
  ELSE
    LET w1 == [w EXCEPT !.warn_msg = {}]
    IN IF file_name \notin SimReadable THEN Raise(w1, "simulation")
       ELSE IF check_raises THEN Raise(w1, "columns")
       ELSE
         LET sim_data == drop_replicate_id(
                           check_ex_exp_columns(get_df(dirname(file_name), file_name[2])),
                           w1.exp_data)
             w2 == insert_plot2(add_plots([w1 EXCEPT !.simulation_df = sim_data]))
             w3 == table_tree_view(w2, dirname(file_name))
         IN w3

\* Outcomes of check_ex_exp_columns: it raises when a mandatory column is
\* missing; with condition_df None either outcome is possible.
CheckOutcomes(file_name, w) ==
  IF file_name \notin SimMandatory THEN {TRUE}
  ELSE IF w.condition_df = None THEN {TRUE, FALSE}
  ELSE {FALSE}

(* ------------------------------------------------------------------------ *)
(* The state machine                                                         *)
(* ------------------------------------------------------------------------ *)

Init ==
  /\ yaml_dict = None
  /\ exp_data = None
  /\ condition_df = None
  /\ visualization_df = None
  /\ simulation_df = None
  /\ warn_msg = {}
  /\ model = None
  /\ connections = 0
  /\ table_window = None
  /\ plot2_shown = FALSE
  /\ plots = <<>>
  /\ last = [op |-> "init", arg |-> <<"", "">>, step |-> "done"]

\* The window after a handler has run.
Install(w, op, arg) ==
  /\ yaml_dict' = w.yaml_dict
  /\ exp_data' = w.exp_data
  /\ condition_df' = w.condition_df
  /\ visualization_df' = w.visualization_df
  /\ simulation_df' = w.simulation_df
  /\ warn_msg' = w.warn_msg
  /\ model' = w.model
  /\ connections' = w.connections
  /\ table_window' = w.table_window
  /\ plot2_shown' = w.plot2_shown
  /\ plots' = w.plots
  /\ last' = [op |-> op, arg |-> arg, step |-> w.step]

\* The user picks a manifest in the yaml dialog (openManifest).
OpenManifest ==
  /\ connections < MaxConnections
  /\ \E file_name \in YamlPaths :
       Install(show_yaml_dialog(file_name, Window), "open", file_name)

\* The user picks a file in the simulation dialog (attachSimulation).
AttachSimulation ==
  /\ connections < MaxConnections
  /\ \E file_name \in SimPaths :
       \E check_raises \in CheckOutcomes(file_name, Window) :
         Install(show_simulation_dialog(file_name, check_raises, Window),
                 "attach", file_name)

\* The user clicks a node of the tree (activate).
Activate ==
  /\ model # None
  /\ \E n \in DOMAIN model.items :
       Install(EmitClicked(1, Index(model, n), Window), "activate", n)

\* The double-click handlers run on a node of the tree (inspect).
Inspect ==
  /\ model # None
  /\ \E n \in DOMAIN model.items :
       Install(EmitDoubleClicked(1, Index(model, n), Window), "inspect", n)

Next == OpenManifest \/ AttachSimulation \/ Activate \/ Inspect

Spec == Init /\ [][Next]_vars

(* ------------------------------------------------------------------------ *)
(* Properties                                                                *)
(* ------------------------------------------------------------------------ *)

ActiveSelection == <<exp_data, condition_df, visualization_df, simulation_df>>

\* A manifest that parses and whose referenced files all load.
ValidManifest(file_name) ==
  LET d == load_yaml(file_name)
      folder == dirname(file_name)
  IN /\ d # YamlError
     /\ FirstLoads(d, MEASUREMENT_FILES, folder)
     /\ FirstLoads(d, CONDITION_FILES, folder)
     /\ (VISUALIZATION_FILES \in DOMAIN d => FirstLoads(d, VISUALIZATION_FILES, folder))
     /\ TreeLoadable(d, folder)

\* The first table of a category of the manifest file_name.
FirstTable(file_name, key) ==
  get_df(dirname(file_name), load_yaml(file_name)[key][1])

\* C1: attaching a simulation file while no measurement table is active
\* leaves the four slots unchanged, refreshes no plot and surfaces the
\* "open a YAML file first" message; a valid manifest opened right after it
\* is opened successfully and its tables are installed.
C1_AttachWithoutMeasurement ==
  [][ /\ (last'.op = "attach" /\ exp_data = None) =>
           /\ ActiveSelection' = ActiveSelection
           /\ plots' = <<>>
           /\ last'.step = "precondition"
           /\ OpenYamlFirstMsg \in warn_msg'
      /\ (last.step = "precondition" /\ last'.op = "open" /\ ValidManifest(last'.arg)) =>
           /\ last'.step = "done"
           /\ exp_data' = FirstTable(last'.arg, MEASUREMENT_FILES)
           /\ condition_df' = FirstTable(last'.arg, CONDITION_FILES)
    ]_vars

C1_Witness ==
  /\ last.op = "attach"
  /\ last.step = "precondition"
  /\ exp_data = None
  /\ OpenYamlFirstMsg \in warn_msg

\* C2: a dialog action that aborts on a load failure leaves the four slots
\* and the stored manifest as they were before the action.
C2_FailedActionChangesNothing ==
  [][ (last'.op \in {"open", "attach"} /\ last'.step # "done") =>
        /\ ActiveSelection' = ActiveSelection
        /\ yaml_dict' = yaml_dict
    ]_vars

\* C3: every plot refresh sees both a measurement and a condition table, and
\* no state has one of the two without the other.
C3_MeasurementAndConditionTogether ==
  /\ (exp_data = None) <=> (condition_df = None)
  /\ \A i \in 1..Len(plots) :
       plots[i].exp_data # None /\ plots[i].condition_df # None

\* C4: a tree click refreshes the plots exactly once, and a repeated click on
\* the same node leaves the slots as the first click set them.
C4_OneRefreshPerActivate ==
  [][ last'.op = "activate" =>
        /\ Len(plots') = 1
        /\ (last.op = "activate" /\ last.arg = last'.arg) =>
             ActiveSelection' = ActiveSelection
    ]_vars

\* C5: the double-click handler changes no slot and refreshes no plot; it
\* shows the node's table when the node carries one and nothing otherwise.
C5_InspectIsReadOnly ==
  [][ last'.op = "inspect" =>
        /\ ActiveSelection' = ActiveSelection
        /\ yaml_dict' = yaml_dict
        /\ plots' = <<>>
        /\ table_window' = IF model.items[last'.arg] # None
                           THEN model.items[last'.arg]
                           ELSE table_window
    ]_vars

C5_Witness ==
  /\ last.op = "inspect"
  /\ model.items[last.arg] # None
  /\ table_window = model.items[last.arg]
  /\ simulation_df # None

\* C6: after a successful openManifest the measurement and condition slots
\* hold the first tables of the manifest, the visualization slot holds the
\* first visualization table or is empty with the warning surfaced, the
\* simulation slot is empty and the plots were refreshed.
C6_OpenManifestInstallsFirstTables ==
  (last.op = "open" /\ last.step = "done") =>
    /\ exp_data = FirstTable(last.arg, MEASUREMENT_FILES)
    /\ condition_df = FirstTable(last.arg, CONDITION_FILES)
    /\ IF VISUALIZATION_FILES \in DOMAIN load_yaml(last.arg)
       THEN visualization_df = FirstTable(last.arg, VISUALIZATION_FILES)
       ELSE visualization_df = None /\ NoVisualizationMsg \in warn_msg
    /\ simulation_df = None
    /\ Len(plots) = 1

\* plot2_shown records that a simulation table had been attached before.
C6_Witness ==
  /\ last.op = "open"
  /\ last.step = "done"
  /\ plot2_shown
  /\ visualization_df = None
  /\ simulation_df = None

\* C7: right after attachSimulation, and after any later activate, an
\* attached simulation table has no replicateId column when the active
\* measurement table has none.
C7_SimulationReconciled ==
  (last.op \in {"attach", "activate"} /\ last.step = "done" /\ simulation_df # None) =>
    (~ exp_data.replicateId => ~ simulation_df.replicateId)

\* C8: the correlation view is shown only while a simulation table is
\* attached.
C8_CorrelationViewNeedsSimulation ==
  plot2_shown => simulation_df # None

\* Messages a successful action surfaces itself.
OwnMessages(l) ==
  IF l.op = "open" /\ VISUALIZATION_FILES \notin DOMAIN load_yaml(l.arg)
  THEN {NoVisualizationMsg}
  ELSE {}

\* C9: after a successful openManifest, activate or attachSimulation the
\* warning area holds no message of an earlier action.
C9_WarningClearedBySuccess ==
  [][ (last'.op \in {"open", "attach", "activate"} /\ last'.step = "done") =>
        warn_msg' \subseteq OwnMessages(last')
    ]_vars

\* C10: rebuilding the tree on attachSimulation keeps the table of every
\* manifest leaf, and inspecting the leaf just activated shows the table in
\* its slot.
C10_TreeKeepsManifestTables ==
  [][ /\ (last'.op = "attach" /\ last'.step = "done" /\ model # None) =>
           \A n \in DOMAIN model.items \cap DOMAIN model'.items :
             n[1] \in LoadedKeys => model'.items[n] = model.items[n]
      /\ (last.op = "activate" /\ last'.op = "inspect" /\ last'.arg = last.arg) =>
           /\ last.arg[1] = MEASUREMENT_FILES => table_window' = exp_data'
           /\ last.arg[1] = CONDITION_FILES => table_window' = condition_df'
           /\ last.arg[1] = VISUALIZATION_FILES => table_window' = visualization_df'
    ]_vars

====
